---- MODULE Spec2Model ----
(***************************************************************************)
(* Model of the endpoint health monitor of slack-qa-assistant-bot:         *)
(* utils/monitor.py, APIMonitor.check_endpoint_sync and the bounded        *)
(* history results_history it records into.                                *)
(*                                                                         *)
(* One invocation of check_endpoint_sync is a sequence of steps, cut at    *)
(* its suspension points: the HTTP request of one loop iteration (Attempt) *)
(* and the time.sleep between two iterations (Sleep).  Times are           *)
(* milliseconds; `elapsed` is time.time() - start_time.                    *)
(***************************************************************************)
EXTENDS Integers, Sequences, FiniteSets, TLC

(* ------------------------------ bounds -------------------------------- *)

\* largest retry_count of a monitored endpoint
MaxRetry == 3

\* number of check_endpoint_sync invocations in one behaviour
MaxChecks == 2

\* threads calling one TestRunner
MaxThreads == 2

\* threads calling start() and stop() of one ContinuousTestRunner
MaxCallers == 2

\* Thread objects one ContinuousTestRunner creates
MaxLoops == 3

\* requests to POST /run-tests
MaxRequests == 3

\* SpecHistory starts HistorySlack entries below the capacity of the history
HistorySlack == 1

\* endpoints checked concurrently by one checkAll
MaxTasks == 2

\* largest limit passed to recentResults
MaxLimit == 2

(* --------------------------- program constants ------------------------ *)

\* APIMonitor.__init__: self.max_history = 1000
max_history == 1000

\* EndpointConfig.timeout default, seconds
DefaultTimeout == 10

(* ------------------------------ Optional ------------------------------ *)

\* Python's None and a present value of an Optional field
None == << >>

Some(x) == << x >>

(* ---------------------------- EndpointConfig -------------------------- *)

Methods == {"GET", "post", "PUT"}

\* str.upper() on the method names that occur
Upper(m) ==
    CASE m = "get"  -> "GET"
      [] m = "post" -> "POST"
      [] m = "put"  -> "PUT"
      [] OTHER      -> m

StatusCodes == {200, 503}

\* max_response_time, seconds
Thresholds == {0, 5}

\* retry_delay, seconds (time.sleep needs a non-negative length)
RetryDelays == {1}

\* duration of one HTTP attempt, milliseconds; a round trip takes time
Durations == {120, 6000}

\* str(e) of an exception that is neither Timeout nor ConnectionError
ExcTexts == {"boom"}

\* str(e) of the UnboundLocalError line 62 raises when no request was issued
UnboundText == "local variable 'response' referenced before assignment"

EndpointConfigs ==
    [ name              : {"Auth API"},
      url               : {"https://api.example.com/auth"},
      method            : Methods,
      expected_status   : StatusCodes,
      max_response_time : Thresholds,
      timeout           : {DefaultTimeout},
      retry_count       : 0 .. MaxRetry,
      retry_delay       : RetryDelays ]

(* --------------------------------- state ------------------------------ *)

VARIABLES
    endpoints,        \* self.endpoints
    results_history,  \* self.results_history
    clock,            \* datetime.now(), a logical clock: one tick per reading
    pc,               \* "idle" | "request" | "sleep" | "returned" | "raised"
    endpoint,         \* the argument of the running invocation
    attempt,          \* the loop variable of `for attempt in range(retry_count)`
    elapsed,          \* time.time() - start_time, ms
    error_message,    \* the local error_message: None while unbound
    result,           \* the value returned, None before the return
    nchecks,          \* invocations so far
    clock_at_call,    \* history of the invocation: clock when it was called
    iterations,       \* ... loop bodies entered
    attempts,         \* ... HTTP requests issued
    fails,            \* ... iterations ended by a caught exception
    responses,        \* ... responses received
    delays,           \* ... time.sleep calls
    last_outcome,     \* ... kind of the outcome of the last iteration
    tasks,            \* the check_endpoint_async coroutines of one checkAll
    gathered,         \* what that checkAll returned, None before it returns
    snapshot,         \* what the last recentResults returned
    bot,              \* bot.py: one APIMonitor.check_endpoints call
    runner,           \* test_runner.py: a TestRunner and the threads calling it
    continuous,       \* test_runner.py: a ContinuousTestRunner and its threads
    web               \* main.py: the requests to POST /run-tests and the files

\* the locals and the history of the running check_endpoint_sync invocation
syncLocals == << pc, endpoint, attempt, elapsed, error_message, result, nchecks,
                 clock_at_call, iterations, attempts, fails, responses, delays,
                 last_outcome >>

\* the state outside the monitor's check_endpoint_sync
services == << runner, continuous, web >>

others == << tasks, gathered, snapshot, bot, runner, continuous, web >>

vars == << endpoints, results_history, clock, pc, endpoint, attempt, elapsed,
           error_message, result, nchecks, clock_at_call, iterations,
           attempts, fails, responses, delays, last_outcome, tasks, gathered,
           snapshot, bot, runner, continuous, web >>

(* ------------------------------- messages ----------------------------- *)

Msg(text, args) == [ text |-> text, args |-> args ]

\* f"Response time {response_time:.2f}ms exceeds threshold {max_response_time * 1000}ms"
SlowMessage(cfg, response_time) ==
    Msg("Response time exceeds threshold",
        << response_time, cfg.max_response_time * 1000 >>)

\* f"Expected status {expected_status}, got {status_code}"
StatusMessage(cfg, status_code) ==
    Msg("Expected status, got", << cfg.expected_status, status_code >>)

\* variant: every except clause binds the same message
FailureMessageGeneric(cfg, kind, text) == Msg("Connection error", << >>)

\* the message each except clause binds on the last attempt
FailureMessage(cfg, kind, text) ==
    CASE kind = "timeout"    -> Msg("Request timeout after s", << cfg.timeout >>)
      [] kind = "connection" -> Msg("Connection error", << >>)
      [] OTHER               -> Msg(text, << >>)

(* -------------------------- pure parts of a check --------------------- *)

\* variant: any other method is requested like GET
SupportedAny(cfg) == TRUE

\* lines 46 and 52: the methods for which a request is issued
Supported(cfg) == Upper(cfg.method) \in {"GET", "POST"}

\* variant: the loop runs retry_count retries after the first attempt
InRangeInclusive(a, cfg) == a <= cfg.retry_count

\* line 44: attempt is a value of range(retry_count)
InRange(a, cfg) == a < cfg.retry_count

\* the for loop's step to the next value of the range
NextAttempt(a) == a + 1

\* variant: every caught exception sleeps and continues
RetriesAlways(kind, a, cfg) == TRUE

\* variant: the ConnectionError clause lacks the sleep-and-continue
RetriesNotOnConnection(kind, a, cfg) ==
    kind # "connection" /\ a < cfg.retry_count - 1

\* variant: the guard compares with retry_count, not retry_count - 1
RetriesOffByOne(kind, a, cfg) == a < cfg.retry_count

\* lines 87, 94, 101: the guard of sleep-and-continue in each except clause
RetriesRemain(kind, a, cfg) ==
    CASE kind = "timeout"    -> a < cfg.retry_count - 1
      [] kind = "connection" -> a < cfg.retry_count - 1
      [] OTHER               -> a < cfg.retry_count - 1

\* variant: the threshold in seconds is compared with milliseconds
ClassifyUnscaled(cfg, status_code, response_time) ==
    IF status_code = cfg.expected_status
    THEN IF response_time <= cfg.max_response_time
         THEN [ status |-> "healthy", error_message |-> None ]
         ELSE [ status |-> "slow",
                error_message |-> Some(SlowMessage(cfg, response_time)) ]
    ELSE [ status |-> "unhealthy",
           error_message |-> Some(StatusMessage(cfg, status_code)) ]

\* variant: the latency check comes before the status-code check
ClassifyLatencyFirst(cfg, status_code, response_time) ==
    IF response_time > cfg.max_response_time * 1000
    THEN [ status |-> "slow",
           error_message |-> Some(SlowMessage(cfg, response_time)) ]
    ELSE IF status_code = cfg.expected_status
         THEN [ status |-> "healthy", error_message |-> None ]
         ELSE [ status |-> "unhealthy",
                error_message |-> Some(StatusMessage(cfg, status_code)) ]

\* variant: a slow response carries no message
ClassifySlowSilent(cfg, status_code, response_time) ==
    IF status_code = cfg.expected_status
    THEN IF response_time <= cfg.max_response_time * 1000
         THEN [ status |-> "healthy", error_message |-> None ]
         ELSE [ status |-> "slow", error_message |-> None ]
    ELSE [ status |-> "unhealthy",
           error_message |-> Some(StatusMessage(cfg, status_code)) ]

\* lines 62-71: status and error_message of a received response
Classify(cfg, status_code, response_time) ==
    IF status_code = cfg.expected_status
    THEN IF response_time <= cfg.max_response_time * 1000
         THEN [ status |-> "healthy", error_message |-> None ]
         ELSE [ status |-> "slow",
                error_message |-> Some(SlowMessage(cfg, response_time)) ]
    ELSE [ status |-> "unhealthy",
           error_message |-> Some(StatusMessage(cfg, status_code)) ]

\* variant: the status code is not passed on to the result
HealthCheckResultCodeless(cfg, status, status_code, response_time, timestamp, msg) ==
    [ endpoint_name |-> cfg.name,
      url           |-> cfg.url,
      status        |-> status,
      status_code   |-> None,
      response_time |-> response_time,
      timestamp     |-> timestamp,
      error_message |-> msg ]

\* lines 73-81 and 108-116: HealthCheckResult(...)
HealthCheckResult(cfg, status, status_code, response_time, timestamp, msg) ==
    [ endpoint_name |-> cfg.name,
      url           |-> cfg.url,
      status        |-> status,
      status_code   |-> status_code,
      response_time |-> response_time,
      timestamp     |-> timestamp,
      error_message |-> msg ]

\* variant: a response with the wrong status is retried like a failure
ReturnsUnlessUnhealthy(status) == status # "unhealthy"

\* lines 83-84: a received response is recorded and returned, whatever its status
ReturnsOnResponse(status) == TRUE

\* variant: start_time is taken anew after each sleep
ElapsedRestarted(t, cfg) == 0

\* variant: the sleep takes no time (retry_delay read in another unit)
ElapsedWithoutDelay(t, cfg) == t

\* lines 42, 60, 88, 107: time.time() - start_time after time.sleep(retry_delay),
\* start_time being read once, before the loop
ElapsedAfterSleep(t, cfg) == t + cfg.retry_delay * 1000

\* variant: the history grows without eviction
AddWithoutEviction(h, r) == Append(h, r)

\* variant: at capacity the newest entry is dropped, not the oldest
AddEvictingNewest(h, r) ==
    IF Len(h) >= max_history
    THEN Append(SubSeq(h, 1, max_history - 1), r)
    ELSE Append(h, r)

\* APIMonitor._add_to_history: append, evicting the oldest entry at capacity
_add_to_history(h, r) ==
    IF Len(h) >= max_history
    THEN Append(SubSeq(h, Len(h) - max_history + 2, Len(h)), r)
    ELSE Append(h, r)

\* line 83: the history after the return of a received response
AddOnResponse(h, r) == _add_to_history(h, r)

\* variant: the exhausted loop returns its result without recording it
NotRecorded(h, r) == h

\* line 118: the history after the return of the exhausted loop
AddOnExhausted(h, r) == _add_to_history(h, r)

(* ------------------------------- operations --------------------------- *)

\* variant: error_message is bound before the loop, so the error result is
\* built and recorded also when no loop body ran
AfterLoopDefaulted(t, msg) ==
    LET m == IF msg = None THEN Some(Msg("", << >>)) ELSE msg
        r == HealthCheckResult(endpoint', "error", None, t, clock + 1, m)
    IN  /\ pc' = "returned"
        /\ result' = Some(r)
        /\ clock' = clock + 1
        /\ results_history' = AddOnExhausted(results_history, r)

\* lines 107-119, reached when the range is exhausted; t is the elapsed time
\* and msg the local error_message (None: never bound, line 115 raises
\* UnboundLocalError to the caller before anything is recorded)
AfterLoop(t, msg) ==
    IF msg = None
    THEN /\ pc' = "raised"
         /\ result' = None
         /\ UNCHANGED << results_history, clock >>
    ELSE LET r == HealthCheckResult(endpoint', "error", None, t, clock + 1, msg)
         IN  /\ pc' = "returned"
             /\ result' = Some(r)
             /\ clock' = clock + 1
             /\ results_history' = AddOnExhausted(results_history, r)

\* the for statement takes the next value a of the range, or ends the loop
ForStep(a, t, msg) ==
    IF InRange(a, endpoint')
    THEN /\ pc' = "request"
         /\ attempt' = a
         /\ result' = None
         /\ UNCHANGED << results_history, clock >>
    ELSE /\ attempt' = attempt
         /\ AfterLoop(t, msg)

\* check_endpoint_sync(endpoint) is called: line 42 and the first line 44
Call(cfg) ==
    /\ pc \in {"idle", "returned", "raised"}
    /\ nchecks < MaxChecks
    /\ nchecks' = nchecks + 1
    /\ endpoint' = cfg
    /\ elapsed' = 0
    /\ error_message' = None
    /\ clock_at_call' = clock
    /\ iterations' = 0
    /\ attempts' = 0
    /\ fails' = 0
    /\ responses' = 0
    /\ delays' = 0
    /\ last_outcome' = "none"
    /\ UNCHANGED << endpoints, others >>
    /\ IF InRange(0, cfg)
       THEN /\ pc' = "request"
            /\ attempt' = 0
            /\ result' = None
            /\ UNCHANGED << results_history, clock >>
       ELSE /\ attempt' = attempt
            /\ AfterLoop(0, None)

\* what one loop body can meet: a response with a status code, or an exception
Outcomes ==
    [ kind : {"response"}, status_code : StatusCodes, text : {""} ]
    \cup [ kind : {"timeout", "connection"}, status_code : {0}, text : {""} ]
    \cup [ kind : {"exception"}, status_code : {0}, text : ExcTexts ]

\* an exception caught in the loop body at elapsed time t: lines 86-105
Caught(kind, text, t) ==
    /\ fails' = fails + 1
    /\ responses' = responses
    /\ elapsed' = t
    /\ IF RetriesRemain(kind, attempt, endpoint)
       THEN /\ pc' = "sleep"
            /\ UNCHANGED << attempt, error_message, result, results_history,
                            clock >>
       ELSE LET msg == Some(FailureMessage(endpoint, kind, text))
            IN  /\ error_message' = msg
                /\ ForStep(NextAttempt(attempt), t, msg)

\* one loop body, lines 45-105, with outcome o after d milliseconds
Attempt(o, d) ==
    /\ pc = "request"
    /\ UNCHANGED << endpoints, endpoint, nchecks, clock_at_call, delays, others >>
    /\ iterations' = iterations + 1
    /\ IF Supported(endpoint)
       THEN /\ attempts' = attempts + 1
            /\ last_outcome' = o.kind
            /\ IF o.kind = "response"
               THEN LET t == elapsed + d
                        c == Classify(endpoint, o.status_code, t)
                        r == HealthCheckResult(endpoint, c.status,
                                 Some(o.status_code), t, clock + 1,
                                 c.error_message)
                    IN  IF ReturnsOnResponse(c.status)
                        THEN /\ responses' = responses + 1
                             /\ fails' = fails
                             /\ elapsed' = t
                             /\ pc' = "returned"
                             /\ result' = Some(r)
                             /\ clock' = clock + 1
                             /\ results_history' =
                                    AddOnResponse(results_history, r)
                             /\ UNCHANGED << attempt, error_message >>
                        ELSE /\ responses' = responses + 1
                             /\ fails' = fails
                             /\ elapsed' = t
                             /\ pc' = "sleep"
                             /\ UNCHANGED << attempt, error_message, result,
                                             results_history, clock >>
               ELSE Caught(o.kind, o.text, elapsed + d)
       ELSE \* no branch binds response: line 60 runs, line 62 raises
            /\ attempts' = attempts
            /\ last_outcome' = "unbound"
            /\ Caught("exception", UnboundText, elapsed)

\* time.sleep(retry_delay); continue: lines 88-89, 95-96, 102-103
Sleep ==
    /\ pc = "sleep"
    /\ delays' = delays + 1
    /\ elapsed' = ElapsedAfterSleep(elapsed, endpoint)
    /\ UNCHANGED << endpoints, endpoint, nchecks, error_message, clock_at_call,
                    iterations, attempts, fails, responses, last_outcome,
                    others >>
    /\ ForStep(NextAttempt(attempt), elapsed', error_message)

(* ----------------------------- specifications ------------------------- *)

\* no TestRunner, ContinuousTestRunner or web application beside the monitor
NoServices ==
    /\ runner = None
    /\ continuous = None
    /\ web = None

\* the state of APIMonitor([c]) whose history holds h, the results of the
\* Len(h) checks made so far
InitWith(c, h) ==
    /\ endpoints = << c >>
    /\ results_history = h
    /\ clock = Len(h)
    /\ pc = "idle"
    /\ endpoint = c
    /\ attempt = 0
    /\ elapsed = 0
    /\ error_message = None
    /\ result = None
    /\ nchecks = 0
    /\ clock_at_call = Len(h)
    /\ iterations = 0
    /\ attempts = 0
    /\ fails = 0
    /\ responses = 0
    /\ delays = 0
    /\ last_outcome = "none"
    /\ tasks = << >>
    /\ gathered = None
    /\ snapshot = None
    /\ bot = None
    /\ NoServices

\* APIMonitor(endpoints), here with one monitored endpoint: lines 35-39
Init == \E c \in EndpointConfigs : InitWith(c, << >>)

Next ==
    \/ \E i \in DOMAIN endpoints : Call(endpoints[i])
    \/ \E o \in Outcomes, d \in Durations : Attempt(o, d)
    \/ Sleep

Spec == Init /\ [][Next]_vars

\* an HTTP attempt ends (requests bounds it by timeout) and time.sleep returns
FairSpec ==
    /\ Spec
    /\ WF_vars(\E o \in Outcomes, d \in Durations : Attempt(o, d))
    /\ WF_vars(Sleep)

\* the result of the i-th of the earlier checks of endpoint c, each of which
\* met its first outcome after 120 ms: the expected status code, or, for a
\* method no request is issued for, the exception of every loop body
PastResult(c, i) ==
    IF Supported(c)
    THEN LET k == Classify(c, c.expected_status, 120)
         IN  HealthCheckResult(c, k.status, Some(c.expected_status), 120, i,
                               k.error_message)
    ELSE HealthCheckResult(c, "error", None,
                           (c.retry_count - 1) * c.retry_delay * 1000, i,
                           Some(FailureMessage(c, "exception", UnboundText)))

\* the history after n such checks; a check with retry_count = 0 records nothing
PastHistory(c, n) ==
    IF c.retry_count = 0 THEN << >> ELSE [ i \in 1 .. n |-> PastResult(c, i) ]

\* the endpoints SpecHistory monitors: two attempts, one of each method
HistoryConfigs ==
    { c \in EndpointConfigs :
        /\ c.retry_count = 2
        /\ c.expected_status = 200
        /\ c.max_response_time = 5 }

\* the monitor after max_history - HistorySlack checks of its endpoint
InitHistory ==
    \E c \in HistoryConfigs :
        InitWith(c, PastHistory(c, max_history - HistorySlack))

SpecHistory == InitHistory /\ [][Next]_vars

(* ------------------- concurrent checks: check_endpoint_async ----------- *)

\* names and URLs of the endpoints of one checkAll (those bot.py configures)
EndpointNames == << "Auth API", "Users API", "Health Check" >>

EndpointUrls ==
    << "https://api.example.com/auth", "https://api.example.com/users",
       "https://api.example.com/health" >>

\* retry_count of the endpoints checked concurrently
GatherRetryCounts == {1, 2}

\* the i-th endpoint of a checkAll: a GET endpoint with rc attempts
GatherConfig(i, rc) ==
    [ name              |-> EndpointNames[i],
      url               |-> EndpointUrls[i],
      method            |-> "GET",
      expected_status   |-> 200,
      max_response_time |-> 5,
      timeout           |-> DefaultTimeout,
      retry_count       |-> rc,
      retry_delay       |-> 1 ]

\* what one awaited request of a coroutine can do: answer with status 200 or
\* time out, after GatherDurations ms
GatherOutcomes ==
    { o \in Outcomes :
        o.kind = "timeout" \/ (o.kind = "response" /\ o.status_code = 200) }

GatherDurations == {120}

\* a coroutine check_endpoint_async(endpoint) that has not run yet
PendingTask ==
    [ pc |-> "pending", attempt |-> 0, elapsed |-> 0, error_message |-> None,
      result |-> None, iterations |-> 0, delays |-> 0, seen |-> 0 ]

\* variant: the coroutine appends to the list as it was when it started
AppendToStale(h, seen, r) == _add_to_history(SubSeq(h, 1, seen), r)

\* line 156: self._add_to_history(result), a plain call between two awaits,
\* acts on self.results_history as it is at the call (seen: its length when
\* the coroutine started)
AppendAsync(h, seen, r) == _add_to_history(h, r)

\* variant: the results of failed checks are left out
GatherWithoutErrors(ts, order) ==
    SelectSeq([ k \in DOMAIN order |-> ts[order[k]].result[1] ],
              LAMBDA r : r.status # "error")

\* checkAll: the results of all coroutines, in the order `order`
GatherResults(ts, order) == [ k \in DOMAIN order |-> ts[order[k]].result[1] ]

\* the orders in which n results can be returned
Orders(n) ==
    { f \in [ 1 .. n -> 1 .. n ] : \A a, b \in 1 .. n : f[a] = f[b] => a = b }

\* limits of recentResults: None for no limit
Limits == { None } \cup { Some(n) : n \in 0 .. MaxLimit }

Min(a, b) == IF a < b THEN a ELSE b

\* variant: the oldest entries are returned
OldestResults(h, limit) ==
    IF limit = None THEN h ELSE SubSeq(h, 1, Min(limit[1], Len(h)))

\* recentResults(limit): the Min(limit, Len(h)) newest entries, oldest first
RecentResults(h, limit) ==
    IF limit = None
    THEN h
    ELSE SubSeq(h, Len(h) - Min(limit[1], Len(h)) + 1, Len(h))

GatherFrame == UNCHANGED << endpoints, syncLocals, bot, services >>

\* lines 122-125: the coroutine starts, opens its session, enters the loop
TaskStart(i) ==
    /\ i \in DOMAIN tasks
    /\ tasks[i].pc = "pending"
    /\ InRange(0, endpoints[i])
    /\ tasks' = [ tasks EXCEPT ![i].pc = "request",
                               ![i].seen = Len(results_history) ]
    /\ snapshot' = None
    /\ UNCHANGED << results_history, clock, gathered >>
    /\ GatherFrame

\* lines 127-157: the request of coroutine i was answered with status_code
\* at elapsed time t; the result is classified, recorded and returned
TaskResponse(i, status_code, t) ==
    LET cfg == endpoints[i]
        c   == Classify(cfg, status_code, t)
        r   == HealthCheckResult(cfg, c.status, Some(status_code), t, clock + 1,
                                 c.error_message)
    IN  /\ tasks' = [ tasks EXCEPT ![i].pc = "returned",
                                   ![i].elapsed = t,
                                   ![i].iterations = @ + 1,
                                   ![i].result = Some(r) ]
        /\ clock' = clock + 1
        /\ results_history' = AppendAsync(results_history, tasks[i].seen, r)

\* the request of coroutine i failed at elapsed time t: retried after a sleep
\* while attempts remain, recorded and returned as the error result otherwise
TaskFailure(i, kind, text, t) ==
    LET cfg == endpoints[i]
        msg == Some(FailureMessage(cfg, kind, text))
        r   == HealthCheckResult(cfg, "error", None, t, clock + 1, msg)
    IN  IF RetriesRemain(kind, tasks[i].attempt, cfg)
        THEN /\ tasks' = [ tasks EXCEPT ![i].pc = "sleep",
                                        ![i].elapsed = t,
                                        ![i].iterations = @ + 1 ]
             /\ UNCHANGED << results_history, clock >>
        ELSE /\ tasks' = [ tasks EXCEPT ![i].pc = "returned",
                                        ![i].elapsed = t,
                                        ![i].iterations = @ + 1,
                                        ![i].error_message = msg,
                                        ![i].result = Some(r) ]
             /\ clock' = clock + 1
             /\ results_history' = AppendAsync(results_history, tasks[i].seen, r)

\* one loop body of coroutine i, lines 126-157, with outcome o after d ms
TaskAttempt(i, o, d) ==
    /\ i \in DOMAIN tasks
    /\ tasks[i].pc = "request"
    /\ Upper(endpoints[i].method) = "GET"
    /\ IF o.kind = "response"
       THEN TaskResponse(i, o.status_code, tasks[i].elapsed + d)
       ELSE TaskFailure(i, o.kind, o.text, tasks[i].elapsed + d)
    /\ snapshot' = None
    /\ UNCHANGED gathered
    /\ GatherFrame

\* the sleep of coroutine i between two attempts, and the next range value
TaskSleep(i) ==
    /\ i \in DOMAIN tasks
    /\ tasks[i].pc = "sleep"
    /\ tasks' = [ tasks EXCEPT
                    ![i].pc = "request",
                    ![i].attempt = NextAttempt(@),
                    ![i].delays = @ + 1,
                    ![i].elapsed = ElapsedAfterSleep(@, endpoints[i]) ]
    /\ snapshot' = None
    /\ UNCHANGED << results_history, clock, gathered >>
    /\ GatherFrame

\* checkAll returns once every coroutine has returned
GatherReturn ==
    /\ tasks # << >>
    /\ gathered = None
    /\ \A i \in DOMAIN tasks : tasks[i].pc = "returned"
    /\ \E order \in Orders(Len(tasks)) :
          gathered' = Some(GatherResults(tasks, order))
    /\ snapshot' = None
    /\ UNCHANGED << results_history, clock, tasks >>
    /\ GatherFrame

\* recentResults(limit), called between any two steps of the coroutines;
\* snapshot is the value returned by the step just taken, None unless it was
\* a call of recentResults
Read(limit) ==
    /\ snapshot' = Some([ limit   |-> limit,
                          results |-> RecentResults(results_history, limit) ])
    /\ UNCHANGED << results_history, clock, tasks, gathered >>
    /\ GatherFrame

\* no check_endpoint_sync is running
IdleLocals ==
    /\ pc = "idle"
    /\ attempt = 0
    /\ elapsed = 0
    /\ error_message = None
    /\ result = None
    /\ nchecks = 0
    /\ clock_at_call = clock
    /\ iterations = 0
    /\ attempts = 0
    /\ fails = 0
    /\ responses = 0
    /\ delays = 0
    /\ last_outcome = "none"

\* a monitor of the endpoints cfgs whose checkAll has created its coroutines;
\* the history is empty, HistorySlack entries below its capacity, or full
InitTasks(cfgs) ==
    /\ endpoints = cfgs
    /\ results_history \in
          { << >>,
            PastHistory(GatherConfig(1, 1), max_history - HistorySlack),
            PastHistory(GatherConfig(1, 1), max_history) }
    /\ clock = Len(results_history)
    /\ tasks = [ i \in DOMAIN cfgs |-> PendingTask ]
    /\ gathered = None
    /\ snapshot = None
    /\ bot = None
    /\ NoServices
    /\ endpoint = endpoints[1]
    /\ IdleLocals

\* checkAll over MaxTasks endpoints, each with one or two attempts
InitGather ==
    \E rcs \in [ 1 .. MaxTasks -> GatherRetryCounts ] :
       InitTasks([ i \in 1 .. MaxTasks |-> GatherConfig(i, rcs[i]) ])

NextGather ==
    \/ \E i \in DOMAIN tasks : TaskStart(i)
    \/ \E i \in DOMAIN tasks, o \in GatherOutcomes, d \in GatherDurations :
          TaskAttempt(i, o, d)
    \/ \E i \in DOMAIN tasks : TaskSleep(i)
    \/ GatherReturn

SpecGather == InitGather /\ [][NextGather]_vars

\* checkAll over MaxTasks endpoints, the first with two attempts, while another
\* caller reads the history
InitRead ==
    InitTasks([ i \in 1 .. MaxTasks |-> GatherConfig(i, IF i = 1 THEN 2 ELSE 1) ])

NextRead ==
    \/ NextGather
    \/ \E limit \in Limits : Read(limit)

SpecRead == InitRead /\ [][NextRead]_vars

(* ----------------------- bot.py: APIMonitor.check_endpoints ------------ *)

\* endpoint.get('expected_status', 200)
DefaultExpectedStatus == 200

\* endpoint.get('max_response_time', 5000), in ms
DefaultMaxResponseTime == 5000

\* dict.get(key, default)
Get(d, key, default) == IF key \in DOMAIN d THEN d[key] ELSE default

\* the endpoints the bot monitors
api_endpoints ==
    [ i \in 1 .. 3 |-> [ name            |-> EndpointNames[i],
                         url             |-> EndpointUrls[i],
                         expected_status |-> 200 ] ]

\* what requests.get can do: answer with a status code, or raise a
\* RequestException (Timeout, ConnectionError)
BotOutcomes == { o \in Outcomes : o.kind \in {"response", "timeout", "connection"} }

\* str(e) of the RequestException raised
ExceptionText(o) == IF o.kind = "timeout" THEN "Read timed out" ELSE "Connection refused"

\* the issues check_endpoints alerts on after outcome o took d ms, in order
Issues(e, o, d) ==
    IF o.kind = "response"
    THEN (IF o.status_code # Get(e, "expected_status", DefaultExpectedStatus)
          THEN << Msg("Status: %d", << o.status_code >>) >>
          ELSE << >>)
         \o
         (IF d > Get(e, "max_response_time", DefaultMaxResponseTime)
          THEN << Msg("Slow response: %.2fms", << d >>) >>
          ELSE << >>)
    ELSE << Msg(ExceptionText(o), << >>) >>

\* the text _send_alert posts
AlertMessage(e, issue) ==
    Msg("API Health Alert\nEndpoint: %s\nURL: %s\nIssue: %s",
        << e.name, e.url, issue >>)

\* _send_alert for each issue; delivered[k] is FALSE when chat_postMessage
\* raised SlackApiError, which is swallowed
Posted(e, issues, delivered) ==
    LET msgs == [ k \in DOMAIN issues |-> [ text |-> AlertMessage(e, issues[k]),
                                            ok   |-> delivered[k] ] ]
    IN  [ k \in DOMAIN SelectSeq(msgs, LAMBDA m : m.ok) |->
            SelectSeq(msgs, LAMBDA m : m.ok)[k].text ]

\* the state of one call of check_endpoints: the position of the loop, and per
\* endpoint the requests made, the outcome met and the alerts sent
BotIdle ==
    [ pc       |-> "idle",
      index    |-> 0,
      requests |-> [ k \in DOMAIN api_endpoints |-> 0 ],
      outcome  |-> [ k \in DOMAIN api_endpoints |-> None ],
      alerts   |-> [ k \in DOMAIN api_endpoints |-> << >> ],
      channel  |-> << >> ]

BotFrame ==
    UNCHANGED << endpoints, results_history, clock, syncLocals, tasks, gathered,
                 snapshot, services >>

\* check_endpoints is called: line 93, the loop starts at the first endpoint
BotCall ==
    /\ bot # None
    /\ bot.pc \in {"idle", "done"}
    /\ bot' = [ BotIdle EXCEPT !.pc = IF api_endpoints = << >> THEN "done" ELSE "loop",
                               !.index = 1 ]
    /\ BotFrame

\* one iteration of the loop, lines 94-109: the request, the alerts for what
\* came back, then the next endpoint
BotCheck(o, d, delivered) ==
    /\ bot # None
    /\ bot.pc = "loop"
    /\ LET k      == bot.index
           e      == api_endpoints[k]
           issues == Issues(e, o, d)
       IN  bot' = [ bot EXCEPT
                      !.requests[k] = @ + 1,
                      !.outcome[k]  = Some([ kind |-> o.kind,
                                             status_code |-> o.status_code,
                                             response_time |-> d ]),
                      !.alerts[k]   = @ \o issues,
                      !.channel     = @ \o Posted(e, issues, delivered),
                      !.index       = k + 1,
                      !.pc          = IF k = Len(api_endpoints)
                                      THEN "done" ELSE "loop" ]
    /\ BotFrame

InitBot ==
    /\ bot = BotIdle
    /\ endpoints = << >>
    /\ results_history = << >>
    /\ clock = 0
    /\ tasks = << >>
    /\ gathered = None
    /\ snapshot = None
    /\ endpoint = GatherConfig(1, 1)
    /\ IdleLocals
    /\ NoServices

NextBot ==
    \/ BotCall
    \/ \E o \in BotOutcomes, d \in Durations, delivered \in [ 1 .. 2 -> BOOLEAN ] :
          BotCheck(o, d, delivered)

SpecBot == InitBot /\ [][NextBot]_vars

(* ----------------------- test_runner.py: TestRunner -------------------- *)

\* the monitor's variables, untouched by the services below
monitorVars ==
    << endpoints, results_history, clock, syncLocals, tasks, gathered, snapshot,
       bot >>

\* no monitor is in use
NoMonitor ==
    /\ endpoints = << >>
    /\ results_history = << >>
    /\ clock = 0
    /\ tasks = << >>
    /\ gathered = None
    /\ snapshot = None
    /\ bot = None
    /\ endpoint = GatherConfig(1, 1)
    /\ IdleLocals

\* test types run on the TestRunner: run_api_tests, run_smoke_tests
TestTypes == {"api", "smoke"}

\* the two entry points that guard on running_tests
RunKinds == {"pytest", "custom"}

\* how the try block of a run can end: the subprocess completes (and for
\* pytest the results file is parsed, missing or unparsable), it times out, or
\* another exception is raised
RunOutcomes(kind) ==
    IF kind = "pytest"
    THEN {"completed", "timeout", "exception", "missing", "unparsable"}
    ELSE {"completed", "timeout", "exception"}

\* lines 20 and 123
Rejected(test_type) ==
    [ status |-> "running",
      error  |-> Some(Msg("%s tests are already running", << test_type >>)) ]

\* the Dict a run returns: lines 70-76, 135-146, 183-214
RunResult(kind, outcome) ==
    CASE outcome = "completed" -> [ status |-> "completed", error |-> None ]
      [] outcome = "timeout" ->
            [ status |-> "timeout",
              error  |-> Some(Msg(IF kind = "pytest"
                                  THEN "Test execution timed out"
                                  ELSE "Command execution timed out", << >>)) ]
      [] outcome = "exception" ->
            [ status |-> "error", error |-> Some(Msg("boom", << >>)) ]
      [] outcome = "missing" ->
            [ status |-> "error", error |-> Some(Msg("Results file not found", << >>)) ]
      [] outcome = "unparsable" ->
            [ status |-> "error",
              error  |-> Some(Msg("Failed to parse results: %s", << "boom" >>)) ]

\* variant: a call is never turned away
NeverGuarded(test_type, running) == FALSE

\* lines 19 and 122: test_type in self.running_tests
Guarded(test_type, running) == test_type \in running

\* variant: the type is released only after a completed run
AfterRunCompleted(running, test_type, outcome) ==
    IF outcome = "completed" THEN running \ {test_type} ELSE running

\* lines 77-78 and 147-148: finally: self.running_tests.discard(test_type)
AfterRun(running, test_type, outcome) == running \ {test_type}

\* a thread that is not inside a run
IdleThread == [ pc |-> "idle", test_type |-> "", kind |-> "" ]

\* the results files a run of this outcome leaves behind
FilesAfter(files, test_type, kind, outcome) ==
    IF kind = "pytest" /\ outcome \in {"completed", "unparsable"}
    THEN files \cup {test_type}
    ELSE files

RunnerFrame == UNCHANGED << monitorVars, continuous, web >>

\* thread t calls run_pytest_tests or run_custom_command for test_type and
\* evaluates the guard, lines 19-20 and 122-123
RunCall(t, test_type, kind) ==
    /\ runner # None
    /\ runner.threads[t].pc = "idle"
    /\ IF Guarded(test_type, runner.running_tests)
       THEN runner' = [ runner EXCEPT
                          !.last = Some([ op |-> kind, test_type |-> test_type,
                                          result |-> Rejected(test_type) ]) ]
       ELSE runner' = [ runner EXCEPT
                          !.threads[t] = [ pc |-> "add", test_type |-> test_type,
                                           kind |-> kind ],
                          !.last = None ]
    /\ RunnerFrame

\* lines 22 and 125: self.running_tests.add(test_type), then the try block
RunAdd(t) ==
    /\ runner # None
    /\ runner.threads[t].pc = "add"
    /\ runner' = [ runner EXCEPT
                     !.running_tests = @ \cup {runner.threads[t].test_type},
                     !.threads[t].pc = "running",
                     !.last = None ]
    /\ RunnerFrame

\* the try block of thread t ends with outcome; the finally clause runs and
\* the call returns
RunFinish(t, outcome) ==
    /\ runner # None
    /\ runner.threads[t].pc = "running"
    /\ outcome \in RunOutcomes(runner.threads[t].kind)
    /\ outcome = "missing" => runner.threads[t].test_type \notin runner.files
    /\ LET th == runner.threads[t]
       IN  runner' = [ runner EXCEPT
                         !.running_tests = AfterRun(@, th.test_type, outcome),
                         !.files = FilesAfter(@, th.test_type, th.kind, outcome),
                         !.threads[t] = IdleThread,
                         !.last = Some([ op |-> th.kind, test_type |-> th.test_type,
                                         result |-> RunResult(th.kind, outcome) ]) ]
    /\ RunnerFrame

\* get_test_status(test_type), lines 216-225; parsed tells whether the
\* results file, when there is one, could be parsed
GetStatus(test_type, parsed) ==
    /\ runner # None
    /\ LET status == IF test_type \in runner.running_tests THEN "running"
                     ELSE IF test_type \in runner.files
                          THEN (IF parsed THEN "completed" ELSE "error")
                          ELSE "not_run"
       IN  runner' = [ runner EXCEPT
                         !.last = Some([ op |-> "status", test_type |-> test_type,
                                         result |-> [ status |-> status,
                                                      error  |-> None ] ]) ]
    /\ RunnerFrame

\* stop_running_tests(test_type), lines 227-231: None clears the set
StopTests(arg) ==
    /\ runner # None
    /\ runner' = [ runner EXCEPT
                     !.running_tests = IF arg = None THEN { } ELSE @ \ {arg[1]},
                     !.last = None ]
    /\ RunnerFrame

\* TestRunner(): lines 12-16, with MaxThreads threads that may call it
InitRunner ==
    /\ runner = [ running_tests |-> { },
                  files         |-> { },
                  threads       |-> [ t \in 1 .. MaxThreads |-> IdleThread ],
                  last          |-> None ]
    /\ continuous = None
    /\ web = None
    /\ NoMonitor

\* runs only, from concurrent threads
NextRuns ==
    \/ \E t \in 1 .. MaxThreads, y \in TestTypes, k \in RunKinds : RunCall(t, y, k)
    \/ \E t \in 1 .. MaxThreads : RunAdd(t)
    \/ \E t \in 1 .. MaxThreads, o \in RunOutcomes("pytest") : RunFinish(t, o)

SpecRuns == InitRunner /\ [][NextRuns]_vars

\* runs, status queries and stops
NextRunner ==
    \/ NextRuns
    \/ \E y \in TestTypes, parsed \in BOOLEAN : GetStatus(y, parsed)
    \/ \E arg \in { None } \cup { Some(y) : y \in TestTypes } : StopTests(arg)

SpecRunner == InitRunner /\ [][NextRunner]_vars

(* ------------------ test_runner.py: ContinuousTestRunner --------------- *)

\* the loop threads that have been started and have not exited
Alive == { n \in DOMAIN continuous.loops : continuous.loops[n] \in {"check", "body"} }

\* the Thread objects not created yet
Unused == { n \in DOMAIN continuous.loops : continuous.loops[n] = "none" }

ContinuousFrame == UNCHANGED << monitorVars, runner, web >>

\* caller c enters start(): line 288, if self.running: return
StartCall(c) ==
    /\ continuous # None
    /\ continuous.callers[c].pc = "idle"
    /\ ~continuous.running
    /\ continuous' = [ continuous EXCEPT !.callers[c].pc = "set" ]
    /\ ContinuousFrame

\* lines 291-294: self.running = True, and the new thread is created and started
StartThread(c) ==
    /\ continuous # None
    /\ continuous.callers[c].pc = "set"
    /\ Unused # { }
    /\ LET n == CHOOSE k \in Unused : \A j \in Unused : k <= j
       IN  continuous' = [ continuous EXCEPT !.running = TRUE,
                                             !.thread = n,
                                             !.loops[n] = "check",
                                             !.callers[c].pc = "idle" ]
    /\ ContinuousFrame

\* caller c enters stop(): line 298 clears the flag, line 299 reads self.thread
StopCall(c) ==
    /\ continuous # None
    /\ continuous.callers[c].pc = "idle"
    /\ continuous' = [ continuous EXCEPT
                         !.running = FALSE,
                         !.callers[c] = IF continuous.thread = 0
                                        THEN [ pc |-> "idle", joins |-> 0 ]
                                        ELSE [ pc |-> "join",
                                               joins |-> continuous.thread ] ]
    /\ ContinuousFrame

\* line 300: self.thread.join() returns once that thread has exited
StopJoined(c) ==
    /\ continuous # None
    /\ continuous.callers[c].pc = "join"
    /\ continuous.loops[continuous.callers[c].joins] = "exited"
    /\ continuous' = [ continuous EXCEPT !.callers[c] = [ pc |-> "idle", joins |-> 0 ] ]
    /\ ContinuousFrame

\* line 304: the loop thread n evaluates while self.running
LoopCheck(n) ==
    /\ continuous # None
    /\ continuous.loops[n] = "check"
    /\ continuous' = [ continuous EXCEPT
                         !.loops[n] = IF continuous.running THEN "body" ELSE "exited" ]
    /\ ContinuousFrame

\* lines 305-314: the smoke tests run and the thread sleeps for the interval
LoopBody(n) ==
    /\ continuous # None
    /\ continuous.loops[n] = "body"
    /\ continuous' = [ continuous EXCEPT !.loops[n] = "check" ]
    /\ ContinuousFrame

\* ContinuousTestRunner(test_runner): lines 280-285
InitContinuous ==
    /\ continuous = [ running |-> FALSE,
                      thread  |-> 0,
                      loops   |-> [ n \in 1 .. MaxLoops |-> "none" ],
                      callers |-> [ c \in 1 .. MaxCallers |->
                                      [ pc |-> "idle", joins |-> 0 ] ] ]
    /\ runner = None
    /\ web = None
    /\ NoMonitor

NextContinuous ==
    \/ \E c \in 1 .. MaxCallers : StartCall(c)
    \/ \E c \in 1 .. MaxCallers : StartThread(c)
    \/ \E c \in 1 .. MaxCallers : StopCall(c)
    \/ \E c \in 1 .. MaxCallers : StopJoined(c)
    \/ \E n \in 1 .. MaxLoops : LoopCheck(n)
    \/ \E n \in 1 .. MaxLoops : LoopBody(n)

SpecContinuous == InitContinuous /\ [][NextContinuous]_vars

(* ---------------------------- main.py: POST /run-tests ----------------- *)

\* the test types with a results file: lines 111-116
ValidTypes == {"api", "ui"}

\* test_type values of a TestRequest
RequestTypes == ValidTypes \cup {"load"}

\* str(e) of HTTPException(status_code, detail): "<status_code>: <detail>" or
\* the empty string, depending on the installed framework version
StrOfHTTPException(status_code, detail) ==
    { Msg("%d: %s", << status_code, detail >>), Msg("", << >>) }

\* lines 108-126: an HTTPException raised inside the try block is an Exception,
\* caught by line 125 and raised again with status 500 and detail str(e)
Handled(status_code, detail) ==
    { [ status_code |-> 500, detail |-> m ] :
        m \in StrOfHTTPException(status_code, detail) }

\* variant: the run is made before the results are parsed
ResultsAfterRun(files, test_type, k) == k

\* lines 109-120: the run of request k is only scheduled; parse_test_results
\* reads what the file holds now, the run that wrote it (0: no file, all zeros)
ResultsSeen(files, test_type, k) == files[test_type]

\* a background run of test_type is under way and may be writing the file
Busy(test_type) ==
    \E j \in DOMAIN web.requests :
        /\ web.requests[j].test_type = test_type
        /\ web.requests[j].phase = "running"

\* lines 82-96: what parse_test_results can yield for request k: the outcome
\* the file holds, or all zeros (0) when it is read half written
Parsed(test_type, k) ==
    { ResultsSeen(web.files, test_type, k) }
        \cup (IF Busy(test_type) THEN {0} ELSE { })

WebFrame == UNCHANGED << monitorVars, runner, continuous >>

\* POST /run-tests with test_type: the handler, lines 106-126
Post(test_type) ==
    /\ web # None
    /\ Len(web.requests) < MaxRequests
    /\ LET k == Len(web.requests) + 1
       IN  IF test_type \in ValidTypes
           THEN \E seen \in Parsed(test_type, k) :
                   web' = [ web EXCEPT
                              !.requests = Append(@,
                                  [ test_type   |-> test_type,
                                    phase       |-> "responded",
                                    status_code |-> 200,
                                    detail      |-> Msg("", << >>),
                                    seen        |-> seen ]) ]
           ELSE \E h \in Handled(400, "Invalid test type") :
                   web' = [ web EXCEPT
                              !.requests = Append(@,
                                  [ test_type   |-> test_type,
                                    phase       |-> "failed",
                                    status_code |-> h.status_code,
                                    detail      |-> h.detail,
                                    seen        |-> 0 ]) ]
    /\ WebFrame

\* the background task of request k starts after its response: lines 38-73
BackgroundStart(k) ==
    /\ web # None
    /\ k \in DOMAIN web.requests
    /\ web.requests[k].phase = "responded"
    /\ web.requests[k].test_type \in ValidTypes
    /\ web' = [ web EXCEPT !.requests[k].phase = "running" ]
    /\ WebFrame

\* pytest of request k ends; written tells whether it wrote the results file
BackgroundEnd(k, written) ==
    /\ web # None
    /\ k \in DOMAIN web.requests
    /\ web.requests[k].phase = "running"
    /\ web' = [ web EXCEPT
                  !.requests[k].phase = "done",
                  !.files[web.requests[k].test_type] = IF written THEN k ELSE @ ]
    /\ WebFrame

\* the application with no results file and no request yet
InitWeb ==
    /\ web = [ files    |-> [ y \in ValidTypes |-> 0 ],
               requests |-> << >> ]
    /\ runner = None
    /\ continuous = None
    /\ NoMonitor

NextWeb ==
    \/ \E y \in RequestTypes : Post(y)
    \/ \E k \in 1 .. MaxRequests : BackgroundStart(k)
    \/ \E k \in 1 .. MaxRequests, written \in BOOLEAN : BackgroundEnd(k, written)

SpecWeb == InitWeb /\ [][NextWeb]_vars

(* --------------------------------- claims ----------------------------- *)

Running == pc \in {"request", "sleep"}

Ended == pc \in {"returned", "raised"}

\* the entries of the history recorded since the running invocation was called
NewEntries ==
    { i \in DOMAIN results_history :
        results_history[i].timestamp > clock_at_call }

C2_AttemptsBounded ==
    (nchecks > 0) =>
        /\ attempts <= endpoint.retry_count
        /\ iterations <= endpoint.retry_count

\* C2 witness: a check has used all three attempts of retry_count = 3
C2_Witness ==
    /\ nchecks > 0
    /\ endpoint.retry_count = 3
    /\ attempts = 3

\* what is left of the loop of a running check: two steps for each value of
\* the range not yet tried, less one while the check sleeps
Remaining ==
    2 * (endpoint.retry_count - attempt) - (IF pc = "sleep" THEN 1 ELSE 0)

\* a running check is never stuck: its request can end, its sleep can return
CanStep ==
    /\ pc = "request" => ENABLED (\E o \in Outcomes, d \in Durations : Attempt(o, d))
    /\ pc = "sleep" => ENABLED Sleep

\* a step of a running check returns a result or leaves strictly less to do
StepTowardsReturn ==
    Running => \/ pc' = "returned"
               \/ Running' /\ Remaining' < Remaining

\* C3: a check always terminates with a result: while it runs it can always
\* take a step, what is left of its loop is a positive number, and every step
\* either returns a result or leaves strictly less of the loop; no step of a
\* running check raises or starts the loop over
C3_Terminates ==
    /\ [](Running => (Remaining > 0 /\ CanStep))
    /\ [][StepTowardsReturn]_vars

\* the same as a liveness property of FairSpec: a running check returns
EventuallyReturns == Running ~> (pc = "returned")

\* C3 witness: a check returns after three failed attempts
C3_Witness ==
    /\ pc = "returned"
    /\ fails = 3
    /\ result[1].status = "error"

\* C4: with retry_count >= 1 no check ends by raising; a caught failure of any
\* kind is followed by a delay exactly when attempts remain, so that delays
\* and attempts are functions of the number of failures; a check that ends
\* without a response has failed retry_count times and returns status error
C4_FailuresAbsorbed ==
    /\ (nchecks > 0 /\ endpoint.retry_count >= 1) => pc # "raised"
    /\ pc = "request" => (delays = fails /\ iterations = fails /\ attempt = fails)
    /\ pc = "sleep" => (delays = fails - 1 /\ fails < endpoint.retry_count)
    /\ (pc = "returned" /\ responses = 0) =>
          /\ fails = endpoint.retry_count
          /\ delays = fails - 1
          /\ result[1].status = "error"
    /\ (pc = "returned" /\ responses > 0) => delays = fails

\* C4 witness: a check whose last attempt met a connection failure returns
\* status error after three failures
C4_Witness ==
    /\ pc = "returned"
    /\ fails = 3
    /\ last_outcome = "connection"
    /\ result[1].status = "error"

\* C5: a check of n = retry_count >= 1 attempts that all fail at transport
\* level ends after exactly n requests and n - 1 delays, returning status error
\* with status_code None
C5_AllAttemptsFail ==
    (Ended /\ endpoint.retry_count >= 1 /\ Supported(endpoint) /\ responses = 0)
    => /\ pc = "returned"
       /\ attempts = endpoint.retry_count
       /\ fails = endpoint.retry_count
       /\ delays = endpoint.retry_count - 1
       /\ result[1].status = "error"
       /\ result[1].status_code = None

\* C5 witness: retry_count = 1, one timeout, no delay, status error
C5_Witness ==
    /\ pc = "returned"
    /\ endpoint.retry_count = 1
    /\ last_outcome = "timeout"
    /\ attempts = 1
    /\ delays = 0
    /\ result[1].status = "error"

\* C6: once a response is received the check has returned: it is the only
\* response, every earlier attempt failed and was followed by one delay, and
\* nothing follows it; a response to the first attempt means one attempt
C6_ResponseEndsCheck ==
    (responses > 0) =>
        /\ pc = "returned"
        /\ responses = 1
        /\ last_outcome = "response"
        /\ attempts = fails + 1
        /\ delays = fails
        /\ result[1].status \in {"healthy", "slow", "unhealthy"}

\* C6 witness: the first attempt of a check with retry_count = 3 receives a
\* response with the wrong status: one attempt, no delay
C6_Witness ==
    /\ pc = "returned"
    /\ endpoint.retry_count = 3
    /\ result[1].status = "unhealthy"
    /\ attempts = 1
    /\ delays = 0

\* the configuration cfg with the threshold max_response_time set to 0
ThresholdZero(cfg) == [ cfg EXCEPT !.max_response_time = 0 ]

\* C7: a response with the expected status code within the time budget is
\* healthy, and the same response classified with threshold 0 is slow
C7_HealthyOrSlow ==
    (pc = "returned" /\ responses = 1
        /\ result[1].status_code = Some(endpoint.expected_status))
    => /\ (result[1].response_time <= endpoint.max_response_time * 1000)
             => result[1].status = "healthy"
       /\ (endpoint.max_response_time = 0) => result[1].status = "slow"
       /\ Classify(ThresholdZero(endpoint), endpoint.expected_status,
                   result[1].response_time).status = "slow"

\* C7 witness: a healthy response, 120 ms within a budget of 5 s
C7_Witness ==
    /\ pc = "returned"
    /\ result[1].status = "healthy"
    /\ result[1].response_time = 120
    /\ endpoint.max_response_time = 5

\* C8: a response with another status code than expected is unhealthy, with a
\* message of the expected and the actual code and nothing about latency, also
\* when it took longer than max_response_time
C8_StatusBeforeLatency ==
    (pc = "returned" /\ responses = 1
        /\ result[1].status_code # Some(endpoint.expected_status))
    => /\ result[1].status = "unhealthy"
       /\ result[1].error_message # None
       /\ result[1].error_message[1].text = "Expected status, got"
       /\ result[1].error_message[1].args =
              << endpoint.expected_status, result[1].status_code[1] >>

\* C8 witness: 503 for 200 after 6000 ms with a budget of 5 s
C8_Witness ==
    /\ pc = "returned"
    /\ endpoint.expected_status = 200
    /\ endpoint.max_response_time = 5
    /\ result[1].status_code = Some(503)
    /\ result[1].response_time > 5000
    /\ result[1].status = "unhealthy"

\* C9: the history never holds more than max_history entries
C9_HistoryBounded == Len(results_history) <= max_history

\* C9 witness: a result was recorded into a full history, which is still full
C9_Witness ==
    /\ clock > max_history
    /\ pc = "returned"
    /\ Len(results_history) = max_history

\* the history is the last Min(n, max_history) of the n results recorded so
\* far, oldest first (the k-th result recorded carries timestamp k)
HoldsLatest ==
    /\ Len(results_history) = Min(clock, max_history)
    /\ \A i \in DOMAIN results_history :
          results_history[i].timestamp = clock - Len(results_history) + i

\* a step that changes the history appends one entry, and evicts one, the
\* oldest, exactly when the history is at capacity
EvictsOldestAtCapacity ==
    (results_history' # results_history) =>
        /\ results_history'[Len(results_history')] = result'[1]
        /\ IF Len(results_history) = max_history
           THEN SubSeq(results_history', 1, max_history - 1)
                    = Tail(results_history)
           ELSE SubSeq(results_history', 1, Len(results_history') - 1)
                    = results_history

\* C10: after n recorded results the history holds the last
\* Min(n, max_history) of them in the order recorded, and an entry leaves it
\* only as the oldest entry of a full history
C10_FifoEviction == [](HoldsLatest) /\ [][EvictsOldestAtCapacity]_vars

\* C10 witness: two results were recorded into a history one below capacity;
\* the oldest entry is the second result ever recorded
C10_Witness ==
    /\ clock = max_history + 1
    /\ Len(results_history) = max_history
    /\ results_history[1].timestamp = 2

\* a result carries a message exactly when its status is not healthy
MessageIffNotHealthy(r) ==
    /\ r.status \in {"healthy", "slow", "unhealthy", "error"}
    /\ (r.error_message = None) <=> (r.status = "healthy")

\* C15: in the result of every check and in every entry of the history,
\* error_message is None exactly when status is healthy
C15_MessageIffNotHealthy ==
    /\ (result # None) => MessageIffNotHealthy(result[1])
    /\ \A i \in DOMAIN results_history :
          MessageIffNotHealthy(results_history[i])

\* C15 witness: the history holds a healthy result without a message and a
\* slow one with a message
C15_Witness ==
    /\ Len(results_history) = 2
    /\ results_history[1].status = "healthy"
    /\ results_history[1].error_message = None
    /\ results_history[2].status = "slow"
    /\ results_history[2].error_message # None

\* a result has no status code exactly when its status is error
CodeIffNotError(r) == (r.status_code = None) <=> (r.status = "error")

\* the result of a check that received a response carries the status code of
\* that response
CarriesReceivedCode ==
    \A o \in Outcomes, d \in Durations :
        (o.kind = "response" /\ Supported(endpoint) /\ Attempt(o, d))
        => /\ result' # None
           /\ result'[1].status_code = Some(o.status_code)

\* C16: the status_code of a result is None exactly when the check received
\* no response, which is exactly when its status is error; otherwise it is
\* the status code of the response received
C16_StatusCodeIffResponse ==
    /\ [](/\ (pc = "returned") =>
                /\ (result[1].status_code = None) <=> (responses = 0)
                /\ CodeIffNotError(result[1])
          /\ \A i \in DOMAIN results_history :
                CodeIffNotError(results_history[i]))
    /\ [][CarriesReceivedCode]_vars

\* C16 witness: after two failures the third attempt receives 503
C16_Witness ==
    /\ pc = "returned"
    /\ fails = 2
    /\ responses = 1
    /\ result[1].status_code = Some(503)

\* the shortest an HTTP attempt takes
MinDuration == CHOOSE d \in Durations : \A e \in Durations : d <= e

\* C17: response_time is the time since the start of the check: it covers
\* every attempt made and every delay slept, so for a response to attempt k
\* it is at least (k - 1) * retry_delay; it is the time the healthy/slow
\* decision compares with max_response_time
C17_ElapsedSpansCheck ==
    (pc = "returned") =>
        /\ result[1].response_time = elapsed
        /\ result[1].response_time >=
              delays * endpoint.retry_delay * 1000 + attempts * MinDuration
        /\ (responses = 1) =>
              /\ delays = attempts - 1
              /\ result[1].status = "healthy" =>
                    result[1].response_time <= endpoint.max_response_time * 1000
              /\ result[1].status = "slow" =>
                    result[1].response_time > endpoint.max_response_time * 1000

\* C17 witness: the second attempt is answered after 120 ms, 7120 ms after
\* the start of the check, and is slow for a budget of 5 s
C17_Witness ==
    /\ pc = "returned"
    /\ attempts = 2
    /\ endpoint.max_response_time = 5
    /\ result[1].response_time = 7120
    /\ result[1].status = "slow"

\* C18: the message of an error result is the one of the failure of the last
\* attempt: the timeout with the configured timeout, the connection error, or
\* the text of the exception
C18_LastFailureMessage ==
    (pc = "returned" /\ responses = 0) =>
        /\ result[1].error_message # None
        /\ LET m == result[1].error_message[1]
           IN  CASE last_outcome = "timeout" ->
                        /\ m.text = "Request timeout after s"
                        /\ m.args = << endpoint.timeout >>
                 [] last_outcome = "connection" ->
                        m = Msg("Connection error", << >>)
                 [] last_outcome = "exception" ->
                        m.text \in ExcTexts /\ m.args = << >>
                 [] last_outcome = "unbound" ->
                        m = Msg(UnboundText, << >>)
                 [] OTHER -> FALSE

\* C18 witness: the third of three failures is a timeout
C18_Witness ==
    /\ pc = "returned"
    /\ fails = 3
    /\ last_outcome = "timeout"
    /\ result[1].error_message = Some(Msg("Request timeout after s", << 10 >>))

\* a step after which a loop body is about to run
StartsAttempt == pc' = "request" /\ (pc # "request" \/ attempt' # attempt)

\* a loop body after the first starts from the sleep that followed the failure
\* of the one before, one retry_delay later; the first starts without a delay
StartsAfterFailureAndDelay ==
    StartsAttempt =>
        IF Running
        THEN /\ pc = "sleep"
             /\ attempt' = attempt + 1
             /\ fails = iterations
             /\ last_outcome \notin {"none", "response"}
             /\ delays' = delays + 1
             /\ elapsed' = elapsed + endpoint.retry_delay * 1000
        ELSE /\ attempt' = 0
             /\ delays' = 0
             /\ elapsed' = 0

\* C19: the attempts of a check are sequential: when attempt k + 1 is about to
\* start, the k attempts before it have all ended in a failure and k delays
\* have been slept, the last one right before it; no delay precedes the first
C19_SequentialAttempts ==
    /\ [](pc = "request" =>
             (iterations = attempt /\ fails = attempt /\ delays = attempt))
    /\ [][StartsAfterFailureAndDelay]_vars

\* C19 witness: the third attempt is about to start, after two delays
C19_Witness ==
    /\ pc = "request"
    /\ attempt = 2
    /\ delays = 2
    /\ elapsed >= 2000

\* the coroutines that have returned
Returned == { i \in DOMAIN tasks : tasks[i].pc = "returned" }

\* the positions of the history written by coroutine i
Appended(i) ==
    { k \in DOMAIN results_history :
        /\ results_history[k].timestamp > clock_at_call
        /\ results_history[k].endpoint_name = endpoints[i].name }

\* C11: concurrent checks of distinct endpoints on one monitor do not interfere:
\* each coroutine counts its own attempts and makes at most retry_count of
\* them, each returned coroutine has appended exactly its one result and no
\* other coroutine has appended any, and the history holds
\* Min(earlier + returned, max_history) entries, the latest ones in order
C11_ConcurrentChecksIndependent ==
    /\ \A i \in DOMAIN tasks :
          /\ tasks[i].attempt = tasks[i].delays
          /\ tasks[i].iterations <= endpoints[i].retry_count
          /\ tasks[i].pc = "request" => tasks[i].iterations = tasks[i].attempt
          /\ Cardinality(Appended(i)) = IF i \in Returned THEN 1 ELSE 0
          /\ \A k \in Appended(i) : results_history[k] = tasks[i].result[1]
    /\ clock = clock_at_call + Cardinality(Returned)
    /\ Len(results_history) = Min(clock, max_history)
    /\ \A k \in DOMAIN results_history :
          results_history[k].timestamp = clock - Len(results_history) + k

\* both coroutines returned, the first after a retry during which the second
\* appended, and the history evicted its oldest entry
C11_Witness ==
    /\ Returned = DOMAIN tasks
    /\ tasks[1].iterations = 2
    /\ tasks[1].seen < max_history
    /\ tasks[2].result[1].timestamp < tasks[1].result[1].timestamp
    /\ Len(results_history) = max_history
    /\ results_history[1].timestamp = clock - max_history + 1
    /\ clock > max_history

\* C12: a read taken while checks are appending returns a consistent snapshot:
\* never longer than max_history, its entries the latest appended ones in
\* order, none of them one that the eviction due has already removed
C12_ReadSeesConsistentHistory ==
    snapshot # None =>
        LET got == snapshot[1].results
        IN  /\ Len(got) <= max_history
            /\ \A k \in DOMAIN got : got[k].timestamp = clock - Len(got) + k
            /\ \A k \in DOMAIN got : got[k].timestamp > clock - max_history

\* a read of the whole history at capacity, after one coroutine has appended
\* and the oldest entry was evicted, while another is still running
C12_Witness ==
    /\ snapshot # None
    /\ snapshot[1].limit = None
    /\ Len(snapshot[1].results) = max_history
    /\ snapshot[1].results[1].timestamp = 2
    /\ Returned # { }
    /\ \E i \in DOMAIN tasks : tasks[i].pc \in {"request", "sleep"}

\* the number of positions of sequence q whose endpoint_name is n
Count(q, n) == Cardinality({ k \in DOMAIN q : q[k].endpoint_name = n })

\* C13: checkAll returns exactly one result per configuration: as many results
\* as configurations, and each endpoint name as often as it was configured,
\* also when the check of another endpoint failed
C13_OneResultPerConfig ==
    gathered # None =>
        /\ Len(gathered[1]) = Len(endpoints)
        /\ \A i \in DOMAIN endpoints :
              Count(gathered[1], endpoints[i].name) =
                  Cardinality({ j \in DOMAIN endpoints :
                                  endpoints[j].name = endpoints[i].name })

\* checkAll has returned a failed check before the result of a healthy one
C13_Witness ==
    /\ gathered # None
    /\ gathered[1][1].status = "error"
    /\ gathered[1][2].status = "healthy"
    /\ gathered[1][1].endpoint_name = endpoints[2].name

\* what a call with limit l returns from history h: the last Min(l, Len(h))
\* entries, all of them without a limit, oldest first
ReturnsMostRecent(got, h, l) ==
    /\ Len(got) = IF l = None THEN Len(h) ELSE Min(l[1], Len(h))
    /\ \A k \in DOMAIN got : got[k] = h[Len(h) - Len(got) + k]

ReadsLeaveHistory ==
    snapshot' # None =>
        /\ results_history' = results_history
        /\ clock' = clock
        /\ ReturnsMostRecent(snapshot'[1].results, results_history,
                             snapshot'[1].limit)

\* C14: recentResults(limit) returns the Min(limit, length) most recent
\* results, all of them without a limit, always ordered oldest first, and
\* leaves the history as it was
C14_RecentResults ==
    /\ [](snapshot # None =>
            ReturnsMostRecent(snapshot[1].results, results_history,
                              snapshot[1].limit))
    /\ [][ReadsLeaveHistory]_vars

\* a read with limit 1 of a history of two results returned the newer one
C14_Witness ==
    /\ snapshot # None
    /\ snapshot[1].limit = Some(1)
    /\ Len(results_history) = 2
    /\ snapshot[1].results = << results_history[2] >>
    /\ results_history[1].timestamp < results_history[2].timestamp

\* the endpoints whose iteration of the loop is over
BotChecked == { k \in DOMAIN api_endpoints : bot.outcome[k] # None }

\* the check of endpoint k was healthy: the expected status, in time
BotHealthy(k) ==
    /\ bot.outcome[k][1].kind = "response"
    /\ bot.outcome[k][1].status_code =
           Get(api_endpoints[k], "expected_status", DefaultExpectedStatus)
    /\ bot.outcome[k][1].response_time <=
           Get(api_endpoints[k], "max_response_time", DefaultMaxResponseTime)

\* C20: a call of the bot's check_endpoints requests every endpoint exactly
\* once, whatever the endpoints before it did, and invokes the alerting exactly
\* once for each endpoint whose check was not healthy and never for a healthy one
C20_OneAlertPerUnhealthyEndpoint ==
    bot # None =>
        /\ bot.pc = "done" => BotChecked = DOMAIN api_endpoints
        /\ \A k \in DOMAIN api_endpoints :
              bot.requests[k] = IF k \in BotChecked THEN 1 ELSE 0
        /\ \A k \in BotChecked :
              Len(bot.alerts[k]) = IF BotHealthy(k) THEN 0 ELSE 1

\* what check_endpoints does: every endpoint requested once, no alert for a
\* healthy endpoint, one alert per failed criterion for the others
C20_AlertPerFailedCriterion ==
    bot # None =>
        /\ bot.pc = "done" => BotChecked = DOMAIN api_endpoints
        /\ \A k \in DOMAIN api_endpoints :
              bot.requests[k] = IF k \in BotChecked THEN 1 ELSE 0
        /\ \A k \in BotChecked :
              /\ BotHealthy(k) <=> bot.alerts[k] = << >>
              /\ Len(bot.alerts[k]) <= 2
              /\ Len(bot.alerts[k]) = 2 <=>
                    /\ bot.outcome[k][1].kind = "response"
                    /\ bot.outcome[k][1].status_code # 200
                    /\ bot.outcome[k][1].response_time > DefaultMaxResponseTime

\* C28: a check with retry_count = 0 issues no request, runs no loop body and
\* sleeps never; it ends by raising to the caller, returns no result and leaves
\* the history as it was at the call
C28_ZeroRetriesRaises ==
    (nchecks > 0 /\ endpoint.retry_count = 0) =>
        /\ pc = "raised"
        /\ attempts = 0
        /\ iterations = 0
        /\ delays = 0
        /\ result = None
        /\ NewEntries = { }
        /\ clock = clock_at_call
        /\ Len(results_history) = clock_at_call

\* the second check of a monitor whose endpoint has retry_count = 0 has raised
C28_Witness ==
    /\ pc = "raised"
    /\ nchecks = 2
    /\ endpoint.retry_count = 0
    /\ results_history = << >>

\* C29: a check of an endpoint whose method is neither GET nor POST issues no
\* request; with retry_count >= 1 it ends after retry_count loop bodies and
\* retry_count - 1 delays by returning and recording a result with status error
\* and status_code None, and it never returns another status
C29_UnsupportedMethodErrors ==
    (nchecks > 0 /\ Upper(endpoint.method) \notin {"GET", "POST"}) =>
        /\ attempts = 0
        /\ responses = 0
        /\ result # None => result[1].status = "error"
        /\ (Ended /\ endpoint.retry_count >= 1) =>
              /\ pc = "returned"
              /\ iterations = endpoint.retry_count
              /\ delays = endpoint.retry_count - 1
              /\ result[1].status = "error"
              /\ result[1].status_code = None
              /\ results_history[Len(results_history)] = result[1]
              /\ NewEntries = { Len(results_history) }

\* a PUT check with retry_count = 3 has returned after three loop bodies and
\* two delays without a request
C29_Witness ==
    /\ pc = "returned"
    /\ endpoint.method = "PUT"
    /\ endpoint.retry_count = 3
    /\ iterations = 3
    /\ delays = 2
    /\ attempts = 0
    /\ result[1].status = "error"

\* the threads inside the try block of a run of test_type
InProgress(test_type) ==
    { t \in DOMAIN runner.threads :
        /\ runner.threads[t].pc = "running"
        /\ runner.threads[t].test_type = test_type }

RejectsRunningType ==
    \A t \in 1 .. MaxThreads, y \in TestTypes, k \in RunKinds :
        (runner # None /\ y \in runner.running_tests /\ RunCall(t, y, k)) =>
            /\ runner'.last = Some([ op |-> k, test_type |-> y,
                                     result |-> Rejected(y) ])
            /\ runner'.running_tests = runner.running_tests
            /\ runner'.threads = runner.threads
            /\ runner'.files = runner.files

\* C21: run_pytest_tests and run_custom_command called for a test_type that is
\* in running_tests return the error result with status running, start nothing
\* and leave running_tests and the running threads as they were
C21_RejectsRunningType == [][RejectsRunningType]_vars

\* a call for api was turned away while another thread runs api tests
C21_Witness ==
    /\ runner # None
    /\ runner.last # None
    /\ runner.last[1].result = Rejected("api")
    /\ runner.last[1].op = "custom"
    /\ "api" \in runner.running_tests
    /\ Cardinality(InProgress("api")) = 1

ReleasesOnReturn ==
    \A t \in 1 .. MaxThreads :
        (/\ runner # None
         /\ runner.threads[t].pc = "running"
         /\ runner'.threads[t].pc = "idle") =>
            /\ runner.threads[t].test_type \notin runner'.running_tests
            /\ runner'.last # None
            /\ runner'.last[1].test_type = runner.threads[t].test_type
            /\ runner'.last[1].result.status \in {"completed", "timeout", "error"}

\* C23: every accepted run releases its test_type when it returns, however it
\* ends; a test_type is in running_tests only while a run of it is in
\* progress, so no finished run turns a later one away
C23_ReleasesType ==
    /\ [](runner # None =>
            \A y \in runner.running_tests : InProgress(y) # { })
    /\ [][ReleasesOnReturn]_vars

\* a pytest run of api has timed out and api is free again
C23_Witness ==
    /\ runner # None
    /\ runner.last # None
    /\ runner.last[1].op = "pytest"
    /\ runner.last[1].test_type = "api"
    /\ runner.last[1].result.status = "timeout"
    /\ "api" \notin runner.running_tests
    /\ InProgress("api") = { }

\* C24: at most one run of a test_type is in progress at any time, under every
\* interleaving of the calls of concurrent threads
C24_OneRunPerType ==
    runner # None => \A y \in TestTypes : Cardinality(InProgress(y)) <= 1

\* C25: a test_type is in running_tests exactly when a run of it is in
\* progress, and get_test_status answers running exactly then, whatever runs,
\* stops and status queries came before
C25_RunningIffInProgress ==
    runner # None =>
        /\ \A y \in TestTypes : y \in runner.running_tests <=> InProgress(y) # { }
        /\ (runner.last # None /\ runner.last[1].op = "status") =>
              (runner.last[1].result.status = "running"
                  <=> InProgress(runner.last[1].test_type) # { })
        /\ \A y \in TestTypes : Cardinality(InProgress(y)) <= 1

\* C26: at most one background test loop is alive at any time, under any
\* sequence of start() and stop() calls, also from concurrent threads
C26_OneLoopAlive ==
    continuous # None => Cardinality(Alive) <= 1

\* C22: a POST /run-tests whose test_type is neither api nor ui is answered
\* with status 400 and detail "Invalid test type", and no pytest run is
\* started for it
C22_InvalidTypeIs400 ==
    web # None =>
        \A k \in DOMAIN web.requests :
            web.requests[k].test_type \notin ValidTypes =>
                /\ web.requests[k].status_code = 400
                /\ web.requests[k].detail = Msg("Invalid test type", << >>)
                /\ web.requests[k].phase \notin {"running", "done"}

\* C27: the results a request answers with are never those of the run it
\* triggered: they are all zeros (no file) or the outcome of the finished run
\* of an earlier request for the same type, and that run had not started when
\* the response was computed
C27_ResponseBeforeOwnRun ==
    web # None =>
        \A k \in DOMAIN web.requests :
            web.requests[k].status_code = 200 =>
                LET seen == web.requests[k].seen
                IN  /\ seen < k
                    /\ seen # 0 =>
                          /\ web.requests[seen].test_type = web.requests[k].test_type
                          /\ web.requests[seen].phase = "done"

\* the second api request was answered with the results of the first one's
\* run, and its own run has since ended and rewritten the file
C27_Witness ==
    /\ web # None
    /\ Len(web.requests) >= 2
    /\ web.requests[2].test_type = "api"
    /\ web.requests[2].status_code = 200
    /\ web.requests[2].seen = 1
    /\ web.requests[2].phase = "done"
    /\ web.files["api"] = 2

====
